---- MODULE Spec2Model ----
(***************************************************************************)
(* python/datafusion/__init__.py: the two constructors column(value) and   *)
(* literal(value), run by several caller threads whose steps interleave    *)
(* at statement granularity.                                               *)
(*                                                                         *)
(* A Python value is a record [shape, repr]: its native shape and its      *)
(* repr() text.  A pyarrow scalar (an instance of pa.Scalar) is a record   *)
(* [shape |-> "scalar", type, payload].  No arithmetic is done by the      *)
(* code, so integers are kept by their repr and classified by range.       *)
(*                                                                         *)
(* pa.scalar (pyarrow) and Expression.column / Expression.literal          *)
(* (._internal, the compiled extension) are called by the code but are     *)
(* not part of it; they are modelled as operators of their own.            *)
(***************************************************************************)
EXTENDS Integers, Sequences, FiniteSets, TLC

\* Bounds of the model.
NumThreads == 2
MaxLeaves == 3

Threads == 1..NumThreads

(***************************************************************************)
(* Values                                                                  *)
(***************************************************************************)
PyVal(shape, repr) == [shape |-> shape, repr |-> repr]
Scalar(type, payload) == [shape |-> "scalar", type |-> type, payload |-> payload]

\* Integers by range: within int64, within uint64 only, beyond 64 bits.
Int64Reprs == {"3"}
UInt64Reprs == {"2**63"}
BigReprs == {"2**64"}

Ints == {PyVal("int", r) : r \in Int64Reprs \cup UInt64Reprs \cup BigReprs}
Primitives ==
    Ints \cup {PyVal("float", "3.5"), PyVal("bool", "True"),
               PyVal("str", "abc"), PyVal("none", "None")}
\* An instance of a class pyarrow knows nothing about.
Objects == {PyVal("object", "object()")}
\* Values that are pa.Scalar instances already, of types coercion produces
\* and of types it never produces.
Scalars == {Scalar("int64", "3"), Scalar("int8", "3")}
Values == Primitives \cup Objects \cup Scalars
\* Column names: Python strings.
Names == {PyVal("str", "age"), PyVal("str", "x")}

Unbound == [shape |-> "unbound"]
NoLeaf == [tag |-> "none"]
NoCall == [op |-> "none"]

(***************************************************************************)
(* The collaborators                                                       *)
(***************************************************************************)
\* isinstance(value, pa.Scalar)
isinstance_Scalar(value) == value.shape = "scalar"

\* pa.scalar(value) with the type inferred: the scalar, or the error raised.
\* pyarrow infers int64 for an integer that fits it, uint64 for one that fits
\* only unsigned, and raises OverflowError for one beyond 64 bits; for a value
\* it cannot classify it raises ArrowInvalid, the UnsupportedValueType here.
pa_scalar(value) ==
    CASE value.shape = "int" /\ value.repr \in Int64Reprs ->
            [ok |-> TRUE, scalar |-> Scalar("int64", value.repr)]
      [] value.shape = "int" /\ value.repr \in UInt64Reprs ->
            [ok |-> TRUE, scalar |-> Scalar("uint64", value.repr)]
      [] value.shape = "int" /\ value.repr \in BigReprs ->
            [ok |-> FALSE, error |-> "OverflowError"]
      [] value.shape = "float" ->
            [ok |-> TRUE, scalar |-> Scalar("float64", value.repr)]
      [] value.shape = "bool" ->
            [ok |-> TRUE, scalar |-> Scalar("boolean", value.repr)]
      [] value.shape = "str" ->
            [ok |-> TRUE, scalar |-> Scalar("utf8", value.repr)]
      [] value.shape = "none" ->
            [ok |-> TRUE, scalar |-> Scalar("null", value.repr)]
      [] OTHER ->
            [ok |-> FALSE, error |-> "UnsupportedValueType"]

\* Expression.literal(value): a new literal leaf holding its argument.
Expression_literal(value, id) == [id |-> id, tag |-> "literal", scalar |-> value]

\* Expression.column(value): a new column leaf holding its argument.
Expression_column(value, id) == [id |-> id, tag |-> "column", name |-> value]

\* A leaf without its identity.
Content(leaf) ==
    IF leaf.tag = "literal" THEN [tag |-> "literal", scalar |-> leaf.scalar]
    ELSE IF leaf.tag = "column" THEN [tag |-> "column", name |-> leaf.name]
    ELSE NoLeaf

(***************************************************************************)
(* The two functions, run alone                                            *)
(***************************************************************************)
column(value) == [ok |-> TRUE, leaf |-> Content(Expression_column(value, 0))]

literal(value) ==
    IF ~isinstance_Scalar(value)
    THEN LET r == pa_scalar(value) IN
         IF r.ok THEN [ok |-> TRUE, leaf |-> Content(Expression_literal(r.scalar, 0))]
         ELSE [ok |-> FALSE, error |-> r.error]
    ELSE [ok |-> TRUE, leaf |-> Content(Expression_literal(value, 0))]

(***************************************************************************)
(* State                                                                   *)
(***************************************************************************)
VARIABLES
    module,     \* the package's module-level state
    pc,         \* each thread's position
    op,         \* the function each thread is in
    arg,        \* the caller's object passed in
    value,      \* the callee's local variable `value`
    result,     \* the leaf returned
    error,      \* the exception raised
    log,        \* the collaborator calls made by the thread's current call
    allocated,  \* Expression objects created so far
    kept        \* a leaf of an earlier call that the caller still holds

vars == <<module, pc, op, arg, value, result, error, log, allocated, kept>>

ModuleInit ==
    [all |-> <<"DataFrame", "ExecutionContext", "Expression", "column", "literal">>]

Init ==
    /\ module = ModuleInit
    /\ pc = [t \in Threads |-> "idle"]
    /\ op = [t \in Threads |-> "none"]
    /\ arg = [t \in Threads |-> Unbound]
    /\ value = [t \in Threads |-> Unbound]
    /\ result = [t \in Threads |-> NoLeaf]
    /\ error = [t \in Threads |-> "none"]
    /\ log = [t \in Threads |-> <<>>]
    /\ allocated = 0
    /\ kept = NoCall

Entry(fn, a) == [fn |-> fn, arg |-> a]

\* A caller invokes f(v): the parameter `value` is bound to the caller's object.
\* Calls start only while the leaves made and the calls under way stay
\* within MaxLeaves.
Call(t, f, v, start) ==
    /\ pc[t] = "idle"
    /\ allocated + Cardinality({u \in Threads : pc[u] # "idle"}) < MaxLeaves
    /\ pc' = [pc EXCEPT ![t] = start]
    /\ op' = [op EXCEPT ![t] = f]
    /\ arg' = [arg EXCEPT ![t] = v]
    /\ value' = [value EXCEPT ![t] = v]
    /\ result' = [result EXCEPT ![t] = NoLeaf]
    /\ error' = [error EXCEPT ![t] = "none"]
    /\ log' = [log EXCEPT ![t] = <<>>]
    /\ UNCHANGED <<module, allocated, kept>>

CallColumn(t) == \E v \in Names : Call(t, "column", v, "col_wrap")

CallLiteral(t) == \E v \in Values : Call(t, "literal", v, "lit_check")

\* Variant: the name is coerced to a scalar before it is wrapped.
ColumnWrap_coerced(t) ==
    /\ pc[t] = "col_wrap"
    /\ log' = [log EXCEPT ![t] =
                @ \o <<Entry("pa.scalar", value[t]),
                       Entry("Expression.column", pa_scalar(value[t]).scalar)>>]
    /\ result' = [result EXCEPT ![t] =
                    Expression_column(pa_scalar(value[t]).scalar, allocated + 1)]
    /\ allocated' = allocated + 1
    /\ pc' = [pc EXCEPT ![t] = "returned"]
    /\ UNCHANGED <<module, op, arg, value, error, kept>>

\* Variant: a leaf made earlier for the same name is handed out again.
ColumnWrap_memoised(t) ==
    /\ pc[t] = "col_wrap"
    /\ log' = [log EXCEPT ![t] = Append(@, Entry("Expression.column", value[t]))]
    /\ IF kept # NoCall /\ kept.op = "column" /\ kept.arg = value[t]
       THEN /\ result' = [result EXCEPT ![t] = kept.leaf]
            /\ UNCHANGED allocated
       ELSE /\ result' = [result EXCEPT ![t] =
                            Expression_column(value[t], allocated + 1)]
            /\ allocated' = allocated + 1
    /\ pc' = [pc EXCEPT ![t] = "returned"]
    /\ UNCHANGED <<module, op, arg, value, error, kept>>

\* return Expression.column(value)
ColumnWrap(t) ==
    /\ pc[t] = "col_wrap"
    /\ log' = [log EXCEPT ![t] = Append(@, Entry("Expression.column", value[t]))]
    /\ result' = [result EXCEPT ![t] = Expression_column(value[t], allocated + 1)]
    /\ allocated' = allocated + 1
    /\ pc' = [pc EXCEPT ![t] = "returned"]
    /\ UNCHANGED <<module, op, arg, value, error, kept>>

\* Variant: the isinstance test is dropped and nothing is coerced.
LiteralCheck_skip(t) ==
    /\ pc[t] = "lit_check"
    /\ pc' = [pc EXCEPT ![t] = "lit_wrap"]
    /\ UNCHANGED <<module, op, arg, value, result, error, log, allocated, kept>>

\* Variant: the isinstance test is dropped and everything is coerced.
LiteralCheck_always(t) ==
    /\ pc[t] = "lit_check"
    /\ pc' = [pc EXCEPT ![t] = "lit_coerce"]
    /\ UNCHANGED <<module, op, arg, value, result, error, log, allocated, kept>>

\* if not isinstance(value, pa.Scalar):
LiteralCheck(t) ==
    /\ pc[t] = "lit_check"
    /\ pc' = [pc EXCEPT ![t] =
                IF ~isinstance_Scalar(value[t]) THEN "lit_coerce" ELSE "lit_wrap"]
    /\ UNCHANGED <<module, op, arg, value, result, error, log, allocated, kept>>

\* Variant: try/except around pa.scalar, the raw value kept on failure.
LiteralCoerce_swallow(t) ==
    /\ pc[t] = "lit_coerce"
    /\ log' = [log EXCEPT ![t] = Append(@, Entry("pa.scalar", value[t]))]
    /\ LET r == pa_scalar(value[t]) IN
       value' = [value EXCEPT ![t] = IF r.ok THEN r.scalar ELSE @]
    /\ pc' = [pc EXCEPT ![t] = "lit_wrap"]
    /\ UNCHANGED <<module, op, arg, result, error, allocated, kept>>

\* Variant: the error of pa.scalar is caught and another one raised.
LiteralCoerce_translate(t) ==
    /\ pc[t] = "lit_coerce"
    /\ log' = [log EXCEPT ![t] = Append(@, Entry("pa.scalar", value[t]))]
    /\ LET r == pa_scalar(value[t]) IN
       IF r.ok
       THEN /\ value' = [value EXCEPT ![t] = r.scalar]
            /\ pc' = [pc EXCEPT ![t] = "lit_wrap"]
            /\ UNCHANGED error
       ELSE /\ error' = [error EXCEPT ![t] = "ValueError"]
            /\ pc' = [pc EXCEPT ![t] = "raised"]
            /\ UNCHANGED value
    /\ UNCHANGED <<module, op, arg, result, allocated, kept>>

\* Variant: the scalar is written into the caller's object as well.
LiteralCoerce_inplace(t) ==
    /\ pc[t] = "lit_coerce"
    /\ log' = [log EXCEPT ![t] = Append(@, Entry("pa.scalar", value[t]))]
    /\ LET r == pa_scalar(value[t]) IN
       IF r.ok
       THEN /\ value' = [value EXCEPT ![t] = r.scalar]
            /\ arg' = [arg EXCEPT ![t] = r.scalar]
            /\ pc' = [pc EXCEPT ![t] = "lit_wrap"]
            /\ UNCHANGED error
       ELSE /\ error' = [error EXCEPT ![t] = r.error]
            /\ pc' = [pc EXCEPT ![t] = "raised"]
            /\ UNCHANGED <<value, arg>>
    /\ UNCHANGED <<module, op, result, allocated, kept>>

\* Variant: `value` is a module-level name (global value), one slot for all.
LiteralCoerce_global(t) ==
    /\ pc[t] = "lit_coerce"
    /\ log' = [log EXCEPT ![t] = Append(@, Entry("pa.scalar", value[t]))]
    /\ LET r == pa_scalar(value[t]) IN
       IF r.ok
       THEN /\ value' = [u \in Threads |->
                            IF pc[u] = "idle" THEN value[u] ELSE r.scalar]
            /\ pc' = [pc EXCEPT ![t] = "lit_wrap"]
            /\ UNCHANGED error
       ELSE /\ error' = [error EXCEPT ![t] = r.error]
            /\ pc' = [pc EXCEPT ![t] = "raised"]
            /\ UNCHANGED value
    /\ UNCHANGED <<module, op, arg, result, allocated, kept>>

\* value = pa.scalar(value)
LiteralCoerce(t) ==
    /\ pc[t] = "lit_coerce"
    /\ log' = [log EXCEPT ![t] = Append(@, Entry("pa.scalar", value[t]))]
    /\ LET r == pa_scalar(value[t]) IN
       IF r.ok
       THEN /\ value' = [value EXCEPT ![t] = r.scalar]
            /\ pc' = [pc EXCEPT ![t] = "lit_wrap"]
            /\ UNCHANGED error
       ELSE /\ error' = [error EXCEPT ![t] = r.error]
            /\ pc' = [pc EXCEPT ![t] = "raised"]
            /\ UNCHANGED value
    /\ UNCHANGED <<module, op, arg, result, allocated, kept>>

\* Variant: the leaf is wrapped a second time.
LiteralWrap_double(t) ==
    /\ pc[t] = "lit_wrap"
    /\ log' = [log EXCEPT ![t] =
                @ \o <<Entry("Expression.literal", value[t]),
                       Entry("Expression.literal",
                             Expression_literal(value[t], allocated + 1))>>]
    /\ result' = [result EXCEPT ![t] =
                    Expression_literal(Expression_literal(value[t], allocated + 1),
                                       allocated + 2)]
    /\ allocated' = allocated + 2
    /\ pc' = [pc EXCEPT ![t] = "returned"]
    /\ UNCHANGED <<module, op, arg, value, error, kept>>

\* Variant: the scalar is handed to Expression.column.
LiteralWrap_column(t) ==
    /\ pc[t] = "lit_wrap"
    /\ log' = [log EXCEPT ![t] = Append(@, Entry("Expression.column", value[t]))]
    /\ result' = [result EXCEPT ![t] = Expression_column(value[t], allocated + 1)]
    /\ allocated' = allocated + 1
    /\ pc' = [pc EXCEPT ![t] = "returned"]
    /\ UNCHANGED <<module, op, arg, value, error, kept>>

\* return Expression.literal(value)
LiteralWrap(t) ==
    /\ pc[t] = "lit_wrap"
    /\ log' = [log EXCEPT ![t] = Append(@, Entry("Expression.literal", value[t]))]
    /\ result' = [result EXCEPT ![t] = Expression_literal(value[t], allocated + 1)]
    /\ allocated' = allocated + 1
    /\ pc' = [pc EXCEPT ![t] = "returned"]
    /\ UNCHANGED <<module, op, arg, value, error, kept>>

\* What the caller holds of a call that has returned.
Held(t) == [op |-> op[t], arg |-> arg[t], leaf |-> result[t]]

\* The frame is left: the leaf, or the exception, is the caller's, who may
\* hold on to a leaf or drop it.
Return(t) ==
    /\ pc[t] \in {"returned", "raised"}
    /\ \/ pc[t] = "returned" /\ kept' = Held(t)
       \/ UNCHANGED kept
    /\ pc' = [pc EXCEPT ![t] = "idle"]
    /\ op' = [op EXCEPT ![t] = "none"]
    /\ arg' = [arg EXCEPT ![t] = Unbound]
    /\ value' = [value EXCEPT ![t] = Unbound]
    /\ result' = [result EXCEPT ![t] = NoLeaf]
    /\ error' = [error EXCEPT ![t] = "none"]
    /\ log' = [log EXCEPT ![t] = <<>>]
    /\ UNCHANGED <<module, allocated>>

Next ==
    \E t \in Threads :
        \/ CallColumn(t)
        \/ CallLiteral(t)
        \/ ColumnWrap(t)
        \/ LiteralCheck(t)
        \/ LiteralCoerce(t)
        \/ LiteralWrap(t)
        \/ Return(t)

Spec == Init /\ [][Next]_vars

(***************************************************************************)
(* Properties                                                              *)
(***************************************************************************)
Done(t) == pc[t] \in {"returned", "raised"}
LiteralDone(t) == op[t] = "literal" /\ Done(t)
Called(t) == [i \in DOMAIN log[t] |-> log[t][i].fn]
Coerces(t) == \E i \in DOMAIN log[t] : log[t][i].fn = "pa.scalar"
Wraps(t) == \E i \in DOMAIN log[t] : log[t][i].fn = "Expression.literal"

\* The type tag the claims give for each native shape.
CanonicalType(shape) ==
    CASE shape = "int" -> "int64"
      [] shape = "float" -> "float64"
      [] shape = "str" -> "utf8"
      [] shape = "bool" -> "boolean"
      [] shape = "none" -> "null"

ReturnsCanonical(t) ==
    /\ pc[t] = "returned"
    /\ result[t].tag = "literal"
    /\ result[t].scalar = Scalar(CanonicalType(arg[t].shape), arg[t].repr)

C2_ScalarPassesUnchanged ==
    /\ \A t \in Threads :
          op[t] = "literal" /\ isinstance_Scalar(arg[t]) =>
              /\ ~Coerces(t)
              /\ value[t] = arg[t]
              /\ pc[t] # "raised"
              /\ pc[t] = "returned" =>
                    /\ result[t].tag = "literal"
                    /\ result[t].scalar = arg[t]
    /\ \A t \in Threads :
          /\ pc[t] = "returned" /\ op[t] = "literal"
          /\ kept # NoCall /\ kept.op = "literal"
          /\ pa_scalar(kept.arg).ok /\ pa_scalar(kept.arg).scalar = arg[t]
          => Content(result[t]) = Content(kept.leaf)

C2_Witness ==
    \E t \in Threads :
        /\ pc[t] = "returned" /\ op[t] = "literal"
        /\ arg[t] = Scalar("int64", "3")
        /\ Wraps(t)
        /\ kept # NoCall /\ kept.arg = PyVal("int", "3")

\* C3: whatever the input, the argument handed to Expression.literal is a
\* Typed Scalar; a raw value never reaches it.
C3_WrapGetsScalar ==
    \A t \in Threads : \A i \in DOMAIN log[t] :
        log[t][i].fn = "Expression.literal" => isinstance_Scalar(log[t][i].arg)

C3_Witness ==
    \E t \in Threads :
        /\ op[t] = "literal" /\ ~isinstance_Scalar(arg[t])
        /\ Wraps(t)

\* C4: when the coercion step cannot map the input to a scalar, literal fails
\* with UnsupportedValueType, the error of the coercion step itself, after a
\* single attempt; Expression.literal is never invoked and no leaf returned.
C4_UnsupportedPropagates ==
    \A t \in Threads :
        op[t] = "literal" /\ arg[t] \in Objects =>
            /\ pc[t] \notin {"lit_wrap", "returned"}
            /\ ~Wraps(t)
            /\ result[t] = NoLeaf
            /\ pc[t] = "raised" =>
                  /\ error[t] = "UnsupportedValueType"
                  /\ error[t] = pa_scalar(arg[t]).error
                  /\ log[t] = <<Entry("pa.scalar", arg[t])>>

C4_Witness ==
    \E t \in Threads :
        pc[t] = "raised" /\ arg[t] \in Objects /\ error[t] = "UnsupportedValueType"

ExistingFields == {PyVal("str", "age")}

\* C6: column(name) returns a column leaf carrying exactly the name given,
\* also one that names no existing field; nothing is coerced (pa.scalar is
\* never invoked, the name stays as passed) and column raises no error.
C6_ColumnWrapsName ==
    \A t \in Threads :
        op[t] = "column" =>
            /\ pc[t] # "raised" /\ error[t] = "none"
            /\ value[t] = arg[t]
            /\ ~Coerces(t)
            /\ pc[t] = "returned" =>
                  /\ result[t].tag = "column"
                  /\ result[t].name = arg[t]

C6_Witness ==
    \E t \in Threads :
        pc[t] = "returned" /\ op[t] = "column" /\ arg[t] \notin ExistingFields

\* Two leaves in callers' hands: never one object, and equal in content when
\* they come from the same function and the same input.
EqualButDistinct(a, b) ==
    /\ a.leaf.id # b.leaf.id
    /\ a.op = b.op /\ a.arg = b.arg => Content(a.leaf) = Content(b.leaf)

\* C7: two calls of column with the same name, or of literal with the same
\* value, whatever was called in between, return structurally equal leaves
\* that are two distinct objects.
C7_EqualFreshLeaves ==
    \A t \in Threads :
        pc[t] = "returned" =>
            /\ kept # NoCall => EqualButDistinct(Held(t), kept)
            /\ \A u \in Threads \ {t} :
                  pc[u] = "returned" => EqualButDistinct(Held(t), Held(u))

C7_Witness ==
    \E t \in Threads :
        /\ pc[t] = "returned" /\ op[t] = "column"
        /\ kept # NoCall /\ kept.op = "column" /\ kept.arg = arg[t]
        /\ result[t].id > kept.leaf.id + 1

\* What a call gives when nothing else has run or is running.
Alone(f, v) == IF f = "column" THEN column(v) ELSE literal(v)

AsAlone(t) ==
    LET r == Alone(op[t], arg[t]) IN
    /\ pc[t] = "returned" => r.ok /\ Content(result[t]) = r.leaf
    /\ pc[t] = "raised" => ~r.ok /\ error[t] = r.error

\* C8: no step of column or literal changes module-level state or the
\* caller's input object, and the outcome of a call that completes is the
\* one its input alone determines, whatever calls came before.
C8_NoSideEffects ==
    [][/\ module' = module
       /\ \A t \in Threads :
             /\ pc[t] # "idle" /\ pc'[t] # "idle" => arg'[t] = arg[t]
             /\ ~Done(t) /\ pc'[t] \in {"returned", "raised"} =>
                   LET r == Alone(op[t], arg[t]) IN
                   IF pc'[t] = "returned"
                   THEN r.ok /\ Content(result'[t]) = r.leaf
                   ELSE ~r.ok /\ error'[t] = r.error]_vars

C8_Witness ==
    /\ module = ModuleInit
    /\ kept # NoCall
    /\ \E t, u \in Threads :
          /\ pc[t] = "raised"
          /\ pc[u] = "returned" /\ arg[u] # value[u]

\* C9: under any interleaving of the steps of concurrent calls, each call is
\* at every step where it would be when run alone, and returns the leaf or
\* raises the error it would alone.
C9_InterleavingSafe ==
    \A t \in Threads :
        /\ AsAlone(t)
        /\ pc[t] \in {"col_wrap", "lit_check", "lit_coerce"} => value[t] = arg[t]
        /\ pc[t] = "lit_coerce" => ~isinstance_Scalar(arg[t])
        /\ pc[t] = "lit_wrap" =>
              value[t] = IF isinstance_Scalar(arg[t]) THEN arg[t]
                         ELSE pa_scalar(arg[t]).scalar
        /\ pc[t] # "raised" => error[t] = "none"
        /\ pc[t] # "returned" => result[t] = NoLeaf

C9_Witness ==
    \E t, u \in Threads :
        /\ pc[t] = "lit_wrap" /\ ~isinstance_Scalar(arg[t])
        /\ pc[u] = "lit_coerce" /\ arg[u] # arg[t]

\* C10: a call of literal invokes pa.scalar at most once, exactly once iff
\* the input is not a Typed Scalar, and then, coercion done or skipped,
\* Expression.literal exactly once; a call of column invokes
\* Expression.column exactly once; nothing else is called.
C10_CallProtocol ==
    \A t \in Threads :
        /\ op[t] = "column" =>
              Called(t) = IF pc[t] = "returned" THEN <<"Expression.column">>
                          ELSE <<>>
        /\ op[t] = "literal" =>
              LET coerced == IF isinstance_Scalar(arg[t]) THEN <<>>
                             ELSE <<"pa.scalar">> IN
              Called(t) =
                  CASE pc[t] \in {"lit_check", "lit_coerce"} -> <<>>
                    [] pc[t] = "lit_wrap" -> coerced
                    [] pc[t] = "raised" -> <<"pa.scalar">>
                    [] pc[t] = "returned" -> coerced \o <<"Expression.literal">>

C10_Witness ==
    \E t, u \in Threads :
        /\ pc[t] = "returned"
        /\ Called(t) = <<"pa.scalar", "Expression.literal">>
        /\ pc[u] = "returned"
        /\ Called(u) = <<"Expression.literal">>

====
